---- MODULE Spec2Model ----
(***************************************************************************)
(* A model of the Go backend of the mSupply dashboard plugin:              *)
(*   - auth.AuthConfig.InjectAuthString / AuthString / AuthURL             *)
(*   - dbstore.SQLiteDatasource: GetDataSource, Init, Ping, CheckHealth,   *)
(*     QueryData, query                                                    *)
(*   - server.HttpServer.testEmail                                         *)
(* Strings that the code inspects character by character are sequences of  *)
(* one-character strings; "" is the empty sequence.                        *)
(***************************************************************************)
EXTENDS Integers, Sequences, FiniteSets, TLC

VARIABLES
    \* ---- package auth ----
    config,        \* the AuthConfig value the methods are called on
    called,        \* which of InjectAuthString / AuthURL have been called
    out,           \* what each of them returned
    \* ---- package dbstore: QueryData ----
    request,       \* the QueryDataRequest (its Queries)
    queryOut,      \* what QueryData returned for it, NoQueryReturn before
    \* ---- package dbstore: the database file and GetDataSource / Init ----
    fileExists,    \* whether the file at datasource.Path exists
    tables,        \* the tables of the database: columns and rows of each
    openHandles,   \* the *sql.DB handles that are open (sql.Open, not Close)
    initPc,        \* where GetDataSource / Init stands
    initDb,        \* the db variable of Init (of Ping while Init pings)
    failedStep,    \* the first step of the running Init that failed
    \* ---- package dbstore: CheckHealth / Ping ----
    healthPc,      \* where each CheckHealth call stands
    healthDb,      \* the db variable of each call's Ping
    health,        \* what each CheckHealth call returned
    \* ---- package server: testEmail ----
    testEmailCalls \* each request to testEmail: where the handler stands,
                   \* its local variables, and the log of what it has done

authVars   == <<config, called, out>>
queryVars  == <<request, queryOut>>
dbVars     == <<fileExists, tables, openHandles>>
initVars   == <<initPc, initDb, failedStep>>
healthVars == <<healthPc, healthDb, health>>
storeVars  == <<dbVars, initVars, healthVars>>
serverVars == <<testEmailCalls>>
vars == <<authVars, queryVars, storeVars, serverVars>>

------------------------------------------------------------------------------
(* Bounds of the model *)

\* URLs are concatenations of at most MaxParts fragments of UrlParts
MaxParts == 4
\* a QueryDataRequest holds at most MaxQueries queries
MaxQueries == 2
\* the number of CheckHealth calls that may run at the same time
NumHealth == 2
\* the number of requests to testEmail that may run at the same time
NumRequests == 2

------------------------------------------------------------------------------
(* package auth *)

Str_http  == <<"h", "t", "t", "p">>
Str_sep   == <<":", "/", "/">>

\* regexp.MustCompile("http://"): a literal pattern
HttpPattern  == Str_http \o Str_sep
\* regexp.MustCompile("https://"): a literal pattern
HttpsPattern == Str_http \o <<"s">> \o Str_sep

\* a nil []int
NilIndex == <<>>

\* Regexp.FindStringIndex for a literal pattern: the Go slice index pair
\* (0-based start, end) of the leftmost match of pat in s, nil without one
FindStringIndex(pat, s) ==
    LET starts == {i \in 0..(Len(s) - Len(pat)) :
                       SubSeq(s, i + 1, i + Len(pat)) = pat}
    IN  IF starts = {}
        THEN NilIndex
        ELSE LET i == CHOOSE i \in starts : \A j \in starts : i <= j
             IN  <<i, i + Len(pat)>>

\* the outcome of a call: a returned string, or a run-time panic
Returned(s) == [panicked |-> FALSE, value |-> s]
Panicked    == [panicked |-> TRUE, value |-> <<>>]

AuthString(c) == c.Username \o <<":">> \o c.Password \o <<"@">>

\* a faulty variant: "https://" is looked for first
InjectAuthString_HttpsFirst(c) ==
    LET first == FindStringIndex(HttpsPattern, c.URL)
        index == IF first = NilIndex
                 THEN FindStringIndex(HttpPattern, c.URL)
                 ELSE first
    IN  IF index = NilIndex
        THEN Returned(<<>>)
        ELSE Returned(SubSeq(c.URL, 1, index[2]) \o AuthString(c)
                      \o SubSeq(c.URL, index[2] + 1, Len(c.URL)))

\* a faulty variant: without a scheme the URL is handed back as it is
InjectAuthString_PassThrough(c) ==
    LET first == FindStringIndex(HttpPattern, c.URL)
        index == IF first = NilIndex
                 THEN FindStringIndex(HttpsPattern, c.URL)
                 ELSE first
    IN  IF index = NilIndex
        THEN Returned(c.URL)
        ELSE Returned(SubSeq(c.URL, 1, index[2]) \o AuthString(c)
                      \o SubSeq(c.URL, index[2] + 1, Len(c.URL)))

InjectAuthString(c) ==
    LET first == FindStringIndex(HttpPattern, c.URL)
        index == IF first = NilIndex
                 THEN FindStringIndex(HttpsPattern, c.URL)
                 ELSE first
    IN  IF index = NilIndex
        THEN Returned(<<>>)
        \* config.URL[:index[1]] and config.URL[index[1]:] panic when the
        \* index is out of range
        ELSE IF index[2] \in 0..Len(c.URL)
             THEN Returned(SubSeq(c.URL, 1, index[2]) \o AuthString(c)
                           \o SubSeq(c.URL, index[2] + 1, Len(c.URL)))
             ELSE Panicked

AuthURL(c) == InjectAuthString(c)

\* the fragments URLs are built from: both schemes whole and in pieces
UrlParts == {HttpPattern, HttpsPattern, Str_http, <<"s">>, Str_sep,
             <<"x">>, <<"/">>}

RECURSIVE Concat(_)
Concat(parts) ==
    IF parts = <<>> THEN <<>> ELSE Head(parts) \o Concat(Tail(parts))

Urls == {Concat(ps) : ps \in UNION {[1..n -> UrlParts] : n \in 0..MaxParts}}

Usernames == {<<>>, <<"u">>}
Passwords == {<<>>, <<"k", "@">>}

AuthConfigs == [Username : Usernames, Password : Passwords, URL : Urls]

NoReturn == [panicked |-> FALSE, value |-> <<"?">>]

AuthInit ==
    /\ config \in AuthConfigs
    /\ called = {}
    /\ out = [m \in {"InjectAuthString", "AuthURL"} |-> NoReturn]

CallInjectAuthString ==
    /\ "InjectAuthString" \notin called
    /\ called' = called \cup {"InjectAuthString"}
    /\ out' = [out EXCEPT !["InjectAuthString"] = InjectAuthString(config)]
    /\ UNCHANGED <<config, queryVars, storeVars, serverVars>>

CallAuthURL ==
    /\ "AuthURL" \notin called
    /\ called' = called \cup {"AuthURL"}
    /\ out' = [out EXCEPT !["AuthURL"] = AuthURL(config)]
    /\ UNCHANGED <<config, queryVars, storeVars, serverVars>>

AuthIdle ==
    /\ config = [Username |-> <<>>, Password |-> <<>>, URL |-> <<>>]
    /\ called = {}
    /\ out = [m \in {"InjectAuthString", "AuthURL"} |-> NoReturn]

AuthNext == CallInjectAuthString \/ CallAuthURL

------------------------------------------------------------------------------
(* package dbstore: QueryData and query *)

\* a nil error
NilError == "nil"

\* the JSON documents a query carries; the last two do not parse
JsonDocs == {"{\"format\":\"table\"}", "{}", "{\"format\":", ""}

\* json.Unmarshal(query.JSON, &queryModel): the error, and queryModel.Format
Unmarshal(doc) ==
    CASE doc = "{\"format\":\"table\"}" ->
            [err |-> NilError, Format |-> "table"]
      [] doc = "{}" ->
            [err |-> NilError, Format |-> ""]
      [] OTHER ->
            [err |-> "unexpected end of JSON input", Format |-> ""]

ErrNotSupported == "Queries are not supported!"

\* data.NewFrame("response") with its fields "time" and "values"
ResponseFrame(q) ==
    [Name |-> "response",
     Fields |-> <<[Name |-> "time",
                   Values |-> <<q.TimeRange.From, q.TimeRange.To>>],
                  [Name |-> "values", Values |-> <<10, 20>>]>>]

\* a faulty variant: the error of json.Unmarshal is not overwritten
query_KeepUnmarshalError(q) ==
    LET response == [Error |-> Unmarshal(q.JSON).err, Frames |-> <<>>]
    IN  IF response.Error # NilError
        THEN response
        ELSE [response EXCEPT !.Frames = Append(@, ResponseFrame(q))]

query(q) ==
    LET response0 == [Error |-> NilError, Frames |-> <<>>]
        response1 == [response0 EXCEPT !.Error = Unmarshal(q.JSON).err]
        response2 == [response1 EXCEPT !.Error = ErrNotSupported]
    IN  IF response2.Error # NilError
        THEN response2
        ELSE [response2 EXCEPT !.Frames = Append(@, ResponseFrame(q))]

\* response.Responses[k] = v on a Go map
MapPut(m, k, v) == [x \in (DOMAIN m) \cup {k} |-> IF x = k THEN v ELSE m[x]]

\* backend.NewQueryDataResponse(): an empty Responses map
NewQueryDataResponse == [Responses |-> <<>>]

\* the loop over request.Queries
RECURSIVE QueryLoop(_, _)
QueryLoop(queries, response) ==
    IF queries = <<>>
    THEN response
    ELSE QueryLoop(Tail(queries),
                   [response EXCEPT !.Responses =
                        MapPut(@, Head(queries).RefID, query(Head(queries)))])

QueryData(req) ==
    [returned |-> TRUE,
     response |-> QueryLoop(req, NewQueryDataResponse),
     err      |-> NilError]

NoQueryReturn ==
    [returned |-> FALSE, response |-> NewQueryDataResponse, err |-> NilError]

RefIDs     == {"A", "B"}
TimeRanges == {[From |-> "t0", To |-> "t1"], [From |-> "t1", To |-> "t2"]}
DataQueries == [RefID : RefIDs, JSON : JsonDocs, TimeRange : TimeRanges]
QueryDataRequests == UNION {[1..n -> DataQueries] : n \in 0..MaxQueries}

QueryInit ==
    /\ request \in QueryDataRequests
    /\ queryOut = NoQueryReturn

CallQueryData ==
    /\ ~queryOut.returned
    /\ queryOut' = QueryData(request)
    /\ UNCHANGED <<request, authVars, storeVars, serverVars>>

QueryIdle ==
    /\ request = <<>>
    /\ queryOut = NoQueryReturn

QueryNext == CallQueryData

------------------------------------------------------------------------------
(* package dbstore: the database, GetDataSource, Init, Ping, CheckHealth *)

\* the tables of the five CREATE TABLE statements of Init, in its order
TableOrder == <<"Schedule", "Config", "ReportGroup", "ReportGroupMembership",
                "ReportContent">>
TableNames == {TableOrder[i] : i \in 1..Len(TableOrder)}

\* the columns each CREATE TABLE statement declares
Columns(t) ==
    CASE t = "Schedule" ->
            <<"id", "interval", "nextReportTime", "name", "description",
              "lookback", "reportGroupID", "time", "day">>
      [] t = "Config" ->
            <<"id", "grafanaUsername", "grafanaPassword", "emailPassword",
              "email", "datasourceID", "emailHost", "emailPort", "grafanaURL">>
      [] t = "ReportGroup" ->
            <<"id", "name", "description">>
      [] t = "ReportGroupMembership" ->
            <<"id", "userID", "reportGroupID">>
      [] t = "ReportContent" ->
            <<"id", "scheduleID", "panelID", "dashboardID", "lookback",
              "variables">>

AbsentTable == [exists |-> FALSE, columns |-> <<>>, rows |-> {}]
NewTable(t) == [exists |-> TRUE, columns |-> Columns(t), rows |-> {}]
\* a table an earlier version of the plugin left: fewer columns, and a row
LegacyTable(t) == [exists |-> TRUE, columns |-> <<"id">>, rows |-> {"row1"}]

\* a faulty variant: the statement replaces a table that exists (DROP, then CREATE)
CreateTableIfNotExists_Replace(tbls, t) ==
    [tbls EXCEPT ![t] = NewTable(t)]

\* a successful Exec of "CREATE TABLE IF NOT EXISTS t (...)"
CreateTableIfNotExists(tbls, t) ==
    IF tbls[t].exists THEN tbls ELSE [tbls EXCEPT ![t] = NewTable(t)]

\* sql.Open("sqlite3", path) fails only for a driver that is not registered
\* or whose OpenConnector fails; the sqlite3 driver is registered by the
\* import and has no OpenConnector, so no error is possible here
SqlOpenErrors  == {}
\* the errors of db.Ping, db.Prepare and stmt.Exec
DbPingErrors   == {"unable to open database file", "file is not a database"}
PrepareErrors  == {"database is locked"}
ExecErrors     == {"attempt to write a readonly database"}

\* a nil *sql.DB
NilDb == 0
HandleIds == 1..(NumHealth + 1)
\* sql.Open returns a new *sql.DB: the first identity not in use
NewDb(open) ==
    CHOOSE h \in HandleIds \ open : \A g \in HandleIds \ open : h <= g

\* a faulty variant: the handle is closed on the normal return only
CloseDeferred_NotOnError(open, db, err) ==
    IF err = NilError THEN open \ {db} ELSE open

\* "defer db.Close()": runs as the function returns err (nil or not) or
\* panics
CloseDeferred(open, db, err) == open \ {db}

HealthCalls == 1..NumHealth

NoHealthResult ==
    [returned |-> FALSE, ping |-> NilError, Status |-> "UNKNOWN",
     Message |-> <<>>, err |-> NilError]

\* a faulty variant: the two branches are swapped
CheckHealth_Swapped(pingErr) ==
    IF pingErr = NilError
    THEN [returned |-> TRUE, ping |-> pingErr, Status |-> "ERROR",
          Message |-> <<"Could not ping the database: ", pingErr>>,
          err |-> NilError]
    ELSE [returned |-> TRUE, ping |-> pingErr, Status |-> "OK",
          Message |-> <<"Yeah, nah, All good">>, err |-> NilError]

\* CheckHealth once Ping has returned pingErr
CheckHealth(pingErr) ==
    IF pingErr # NilError
    THEN [returned |-> TRUE, ping |-> pingErr, Status |-> "ERROR",
          Message |-> <<"Could not ping the database: ", pingErr>>,
          err |-> NilError]
    ELSE [returned |-> TRUE, ping |-> pingErr, Status |-> "OK",
          Message |-> <<"Yeah, nah, All good">>, err |-> NilError]

NoFailure == <<"none", "">>

\* the databases the plugin may find at start: any of the five tables may
\* be missing, and those there hold a row and are all of an earlier layout,
\* or all of the current one
InitialDatabases ==
    {[t \in TableNames |-> IF t \in S THEN LegacyTable(t) ELSE AbsentTable] :
        S \in SUBSET TableNames}
    \cup
    {[t \in TableNames |->
        IF t \in S THEN [NewTable(t) EXCEPT !.rows = {"row1"}]
                   ELSE AbsentTable] : S \in SUBSET TableNames}

StoreInit ==
    /\ fileExists \in BOOLEAN
    /\ tables \in InitialDatabases
    /\ ~fileExists => tables = [t \in TableNames |-> AbsentTable]
    /\ openHandles = {}
    /\ initPc = "idle"
    /\ initDb = NilDb
    /\ failedStep = NoFailure
    /\ healthPc = [i \in HealthCalls |-> "idle"]
    /\ healthDb = [i \in HealthCalls |-> NilDb]
    /\ health = [i \in HealthCalls |-> NoHealthResult]

StoreIdle ==
    /\ fileExists = FALSE
    /\ tables = [t \in TableNames |-> AbsentTable]
    /\ openHandles = {}
    /\ initPc = "idle"
    /\ initDb = NilDb
    /\ failedStep = NoFailure
    /\ healthPc = [i \in HealthCalls |-> "idle"]
    /\ healthDb = [i \in HealthCalls |-> NilDb]
    /\ health = [i \in HealthCalls |-> NoHealthResult]

\* the statement Init runs after the one for table t; Init_End after the last
NextStatement(t) ==
    LET i == CHOOSE k \in 1..Len(TableOrder) : TableOrder[k] = t
    IN  IF i = Len(TableOrder) THEN "Init_End" ELSE TableOrder[i + 1]

\* GetDataSource: builds the datasource and calls Init, which calls Ping,
\* which opens a handle with sql.Open and defers its Close. A plugin process
\* starts with it; a new one starts only with no CheckHealth call running.
GetDataSourceCall ==
    /\ initPc \in {"idle", "returned", "panicked"}
    /\ \A i \in HealthCalls : healthPc[i] = "idle"
    /\ \E err \in SqlOpenErrors \cup {NilError} :
          IF err # NilError
          THEN \* db is nil: Ping returns err, the deferred db.Close() panics
               /\ initPc' = "panicked"
               /\ failedStep' = <<"sql.Open", "">>
               /\ UNCHANGED <<initDb, openHandles>>
          ELSE /\ initPc' = "Init_Ping"
               /\ failedStep' = NoFailure
               /\ initDb' = NewDb(openHandles)
               /\ openHandles' = openHandles \cup {NewDb(openHandles)}
    /\ health' = [i \in HealthCalls |-> NoHealthResult]
    /\ UNCHANGED <<fileExists, tables, healthPc, healthDb, authVars, queryVars, serverVars>>

\* Init, as its Ping returns: db.Ping's outcome, Ping's deferred Close, and
\* panic(err) for an error. A successful db.Ping leaves the file in place
\* (the driver creates a missing file on connecting).
InitPingReturn ==
    /\ initPc = "Init_Ping"
    /\ \E err \in DbPingErrors \cup {NilError} :
          /\ openHandles' = CloseDeferred(openHandles, initDb, err)
          /\ initDb' = NilDb
          /\ IF err # NilError
             THEN /\ initPc' = "panicked"
                  /\ failedStep' = <<"Ping", "">>
                  /\ UNCHANGED fileExists
             ELSE /\ initPc' = "Init_Open"
                  /\ fileExists' = TRUE
                  /\ UNCHANGED failedStep
    /\ UNCHANGED <<tables, healthVars, authVars, queryVars, serverVars>>

\* Init: db, err := sql.Open(...); defer db.Close()
InitOpen ==
    /\ initPc = "Init_Open"
    /\ \E err \in SqlOpenErrors \cup {NilError} :
          IF err # NilError
          THEN /\ initPc' = "panicked"
               /\ failedStep' = <<"sql.Open", "">>
               /\ UNCHANGED <<initDb, openHandles>>
          ELSE /\ initPc' = TableOrder[1]
               /\ initDb' = NewDb(openHandles)
               /\ openHandles' = openHandles \cup {NewDb(openHandles)}
               /\ UNCHANGED failedStep
    /\ UNCHANGED <<fileExists, tables, healthVars, authVars, queryVars, serverVars>>

\* Init: stmt, err = db.Prepare("CREATE TABLE IF NOT EXISTS t ..."),
\* stmt.Exec(), and the test of err, which is Prepare's error: the result of
\* Exec is dropped. After a failed Prepare stmt is nil and stmt.Exec() is a
\* nil dereference, a run-time panic, before err is looked at.
InitCreateTable ==
    /\ initPc \in TableNames
    /\ \E prepareErr \in PrepareErrors \cup {NilError},
          execErr \in ExecErrors \cup {NilError} :
          IF prepareErr # NilError
          THEN /\ initPc' = "panicked"
               /\ failedStep' = <<"Prepare", initPc>>
               /\ openHandles' = CloseDeferred(openHandles, initDb, prepareErr)
               /\ initDb' = NilDb
               /\ UNCHANGED tables
          ELSE /\ tables' = IF execErr = NilError
                            THEN CreateTableIfNotExists(tables, initPc)
                            ELSE tables
               /\ failedStep' = IF execErr # NilError /\ failedStep = NoFailure
                                THEN <<"Exec", initPc>>
                                ELSE failedStep
               /\ initPc' = NextStatement(initPc)
               /\ UNCHANGED <<initDb, openHandles>>
    /\ UNCHANGED <<fileExists, healthVars, authVars, queryVars, serverVars>>

\* Init logs "Database initialized!" and returns: the deferred Close calls
\* run, and GetDataSource returns the datasource
InitReturn ==
    /\ initPc = "Init_End"
    /\ initPc' = "returned"
    /\ openHandles' = CloseDeferred(openHandles, initDb, NilError)
    /\ initDb' = NilDb
    /\ UNCHANGED <<fileExists, tables, failedStep, healthVars, authVars,
                   queryVars, serverVars>>

\* CheckHealth on the datasource GetDataSource returned: it calls Ping, which
\* opens a handle with sql.Open and defers its Close
CheckHealthCall(i) ==
    /\ initPc = "returned"
    /\ healthPc[i] = "idle"
    /\ \E err \in SqlOpenErrors \cup {NilError} :
          IF err # NilError
          THEN /\ healthPc' = [healthPc EXCEPT ![i] = "panicked"]
               /\ UNCHANGED <<healthDb, openHandles>>
          ELSE /\ healthPc' = [healthPc EXCEPT ![i] = "Ping"]
               /\ healthDb' = [healthDb EXCEPT ![i] = NewDb(openHandles)]
               /\ openHandles' = openHandles \cup {NewDb(openHandles)}
    /\ health' = [health EXCEPT ![i] = NoHealthResult]
    /\ UNCHANGED <<fileExists, tables, initVars, authVars, queryVars, serverVars>>

\* db.Ping's outcome, Ping's return with its deferred Close, and the rest of
\* CheckHealth, which builds the result from Ping's error
CheckHealthReturn(i) ==
    /\ healthPc[i] = "Ping"
    /\ \E err \in DbPingErrors \cup {NilError} :
          /\ openHandles' = CloseDeferred(openHandles, healthDb[i], err)
          /\ health' = [health EXCEPT ![i] = CheckHealth(err)]
          /\ fileExists' = IF err = NilError THEN TRUE ELSE fileExists
    /\ healthDb' = [healthDb EXCEPT ![i] = NilDb]
    /\ healthPc' = [healthPc EXCEPT ![i] = "idle"]
    /\ UNCHANGED <<tables, initVars, authVars, queryVars, serverVars>>

StoreNext ==
    \/ GetDataSourceCall
    \/ InitPingReturn
    \/ InitOpen
    \/ InitCreateTable
    \/ InitReturn
    \/ \E i \in HealthCalls : CheckHealthCall(i)
    \/ \E i \in HealthCalls : CheckHealthReturn(i)

------------------------------------------------------------------------------
(* package server: testEmail, and auth.NewAuthConfig which it calls *)

Requests == 1..NumRequests

\* the values of the "schedule-id" path variable
ScheduleIds == {"s1", "s2"}
\* the schedules db.GetSchedule may return
Schedules == {[ID |-> "s1", Name |-> "weekly"], [ID |-> "s2", Name |-> "daily"]}
\* the settings db.GetSettings may return
SettingsRows ==
    {[GrafanaUsername |-> <<"u">>, GrafanaPassword |-> <<"k", "@">>,
      GrafanaURL |-> HttpPattern \o <<"x">>, DatasourceID |-> 1],
     [GrafanaUsername |-> <<>>, GrafanaPassword |-> <<>>,
      GrafanaURL |-> <<"x">>, DatasourceID |-> 2]}
\* the errors of the lookups
LookupErrors == {"sql: no rows in result set"}

\* the four lookups of testEmail, in the order of its code
Lookups == <<"NewEmailConfig", "NewAuthConfig", "GetSettings", "GetSchedule">>

\* what the handler does, as it is logged: a call with its arguments, what
\* it returned (a nil pointer is <<>>, a pointer to v is <<v>>) and its error
Event(op, args, ret, err) == [op |-> op, args |-> args, ret |-> ret, err |-> err]
HttpError(status, err) == Event("http.Error", <<err, status>>, <<>>, NilError)
PanicEvent(err)        == Event("panic", <<err>>, <<>>, NilError)

\* auth.NewAuthConfig, given what datasource.GetSettings() returned
NewAuthConfig(settings, err) ==
    IF err # NilError
    THEN [ret |-> <<>>, err |-> err]
    ELSE [ret |-> <<[Username |-> settings[1].GrafanaUsername,
                     Password |-> settings[1].GrafanaPassword,
                     URL      |-> settings[1].GrafanaURL]>>,
          err |-> NilError]

\* a faulty variant: every failed lookup is answered with status 500
FailureStatus_Always500(lookup) == 500

\* the status testEmail writes when a lookup has failed:
\* http.StatusInternalServerError, and http.StatusBadRequest for GetSchedule
FailureStatus(lookup) == IF lookup = "GetSchedule" THEN 400 ELSE 500

\* a faulty variant: the path variable is read under another name, so id is ""
GetScheduleArg_WrongKey(c) == ""

\* the argument of server.db.GetSchedule: id, vars["schedule-id"]
GetScheduleArg(c) == c.id

\* the arguments of re.CreateReport
CreateReportArgs(c) ==
    <<c.schedule[1], c.authConfig[1], c.settings[1].DatasourceID,
      c.emailConfig[1]>>

NoCall ==
    [pc |-> "idle", id |-> "", emailConfig |-> <<>>, authConfig |-> <<>>,
     settings |-> <<>>, schedule |-> <<>>, log |-> <<>>]

\* a lookup has returned (ret, err): it is logged; after an error the handler
\* logs it, writes the error response and panics, else it goes on to next
AfterLookup(c, lookup, args, ret, err, next) ==
    IF err # NilError
    THEN [c EXCEPT !.pc = "panicked",
                   !.log = @ \o <<Event(lookup, args, ret, err),
                                  HttpError(FailureStatus(lookup), err),
                                  PanicEvent(err)>>]
    ELSE [c EXCEPT !.pc = next,
                   !.log = Append(@, Event(lookup, args, ret, err))]

ServerInit == testEmailCalls = [r \in Requests |-> NoCall]
ServerIdle == testEmailCalls = [r \in Requests |-> NoCall]

\* a request is routed to testEmail: id := mux.Vars(request)["schedule-id"]
TestEmailCall(r) ==
    /\ testEmailCalls[r].pc = "idle"
    /\ \E id \in ScheduleIds :
          testEmailCalls' =
              [testEmailCalls EXCEPT ![r] = [NoCall EXCEPT !.pc = Lookups[1],
                                                           !.id = id]]
    /\ UNCHANGED <<authVars, queryVars, storeVars>>

\* emailConfig, err := auth.NewEmailConfig(server.db)
TestEmailNewEmailConfig(r) ==
    LET c == testEmailCalls[r] IN
    /\ c.pc = "NewEmailConfig"
    /\ \E err \in LookupErrors \cup {NilError} :
          LET ret == IF err = NilError THEN <<"emailConfig">> ELSE <<>>
          IN  testEmailCalls' =
                  [testEmailCalls EXCEPT ![r] =
                      AfterLookup([c EXCEPT !.emailConfig = ret],
                                  "NewEmailConfig", <<>>, ret, err,
                                  "NewAuthConfig")]
    /\ UNCHANGED <<authVars, queryVars, storeVars>>

\* authConfig, err := auth.NewAuthConfig(server.db)
TestEmailNewAuthConfig(r) ==
    LET c == testEmailCalls[r] IN
    /\ c.pc = "NewAuthConfig"
    /\ \E err \in LookupErrors \cup {NilError}, row \in SettingsRows :
          LET got == NewAuthConfig(IF err = NilError THEN <<row>> ELSE <<>>,
                                   err)
          IN  testEmailCalls' =
                  [testEmailCalls EXCEPT ![r] =
                      AfterLookup([c EXCEPT !.authConfig = got.ret],
                                  "NewAuthConfig", <<>>, got.ret, got.err,
                                  "GetSettings")]
    /\ UNCHANGED <<authVars, queryVars, storeVars>>

\* settings, err := server.db.GetSettings()
TestEmailGetSettings(r) ==
    LET c == testEmailCalls[r] IN
    /\ c.pc = "GetSettings"
    /\ \E err \in LookupErrors \cup {NilError}, row \in SettingsRows :
          LET ret == IF err = NilError THEN <<row>> ELSE <<>>
          IN  testEmailCalls' =
                  [testEmailCalls EXCEPT ![r] =
                      AfterLookup([c EXCEPT !.settings = ret],
                                  "GetSettings", <<>>, ret, err,
                                  "GetSchedule")]
    /\ UNCHANGED <<authVars, queryVars, storeVars>>

\* schedule, err := server.db.GetSchedule(id)
TestEmailGetSchedule(r) ==
    LET c == testEmailCalls[r] IN
    /\ c.pc = "GetSchedule"
    /\ \E err \in LookupErrors \cup {NilError}, row \in Schedules :
          LET ret == IF err = NilError THEN <<row>> ELSE <<>>
          IN  testEmailCalls' =
                  [testEmailCalls EXCEPT ![r] =
                      AfterLookup([c EXCEPT !.schedule = ret],
                                  "GetSchedule", <<GetScheduleArg(c)>>, ret,
                                  err, "CreateReport")]
    /\ UNCHANGED <<authVars, queryVars, storeVars>>

\* em := emailer.New(emailConfig); re := reportEmailer.NewReportEmailer(..);
\* re.CreateReport(*schedule, authConfig, settings.DatasourceID, *em) is
\* called
TestEmailCreateReport(r) ==
    LET c == testEmailCalls[r] IN
    /\ c.pc = "CreateReport"
    /\ testEmailCalls' =
           [testEmailCalls EXCEPT ![r] =
               [c EXCEPT !.pc = "InCreateReport",
                         !.log = Append(@, Event("CreateReport",
                                                 CreateReportArgs(c), <<>>,
                                                 NilError))]]
    /\ UNCHANGED <<authVars, queryVars, storeVars>>

\* CreateReport returns and rw.WriteHeader(http.StatusOK) follows, or
\* CreateReport panics and the handler ends there
TestEmailCreateReportEnds(r) ==
    LET c == testEmailCalls[r] IN
    /\ c.pc = "InCreateReport"
    /\ \E panics \in BOOLEAN :
          testEmailCalls' =
              [testEmailCalls EXCEPT ![r] =
                  IF panics
                  THEN [c EXCEPT !.pc = "panicked",
                                 !.log = Append(@, PanicEvent("CreateReport"))]
                  ELSE [c EXCEPT !.pc = "done",
                                 !.log = @ \o
                                     <<Event("CreateReport.return", <<>>, <<>>,
                                             NilError),
                                       Event("WriteHeader", <<200>>, <<>>,
                                             NilError)>>]]
    /\ UNCHANGED <<authVars, queryVars, storeVars>>

ServerNext ==
    \E r \in Requests :
        \/ TestEmailCall(r)
        \/ TestEmailNewEmailConfig(r)
        \/ TestEmailNewAuthConfig(r)
        \/ TestEmailGetSettings(r)
        \/ TestEmailGetSchedule(r)
        \/ TestEmailCreateReport(r)
        \/ TestEmailCreateReportEnds(r)

------------------------------------------------------------------------------
(* The specifications: each runs one part, the others stay idle *)

InitStore == StoreInit /\ AuthIdle /\ QueryIdle /\ ServerIdle

SpecStore == InitStore /\ [][StoreNext]_vars

InitAuth == AuthInit /\ QueryIdle /\ StoreIdle /\ ServerIdle

SpecAuth == InitAuth /\ [][AuthNext]_vars

InitQuery == QueryInit /\ AuthIdle /\ StoreIdle /\ ServerIdle

SpecQuery == InitQuery /\ [][QueryNext]_vars

InitServer == ServerInit /\ AuthIdle /\ QueryIdle /\ StoreIdle

SpecServer == InitServer /\ [][ServerNext]_vars

------------------------------------------------------------------------------
(* Claims about package auth, checked under SpecAuth *)

\* pat occurs in s ending at Go index e (s[e-len(pat):e] == pat)
EndsAt(s, pat, e) ==
    /\ e - Len(pat) >= 0
    /\ e <= Len(s)
    /\ SubSeq(s, e - Len(pat) + 1, e) = pat
Contains(s, pat) == \E e \in 0..Len(s) : EndsAt(s, pat, e)
LeftmostEnd(s, pat, e) ==
    /\ EndsAt(s, pat, e)
    /\ \A f \in 0..(e - 1) : ~EndsAt(s, pat, f)
Spliced(c, e) ==
    SubSeq(c.URL, 1, e) \o c.Username \o <<":">> \o c.Password \o <<"@">>
        \o SubSeq(c.URL, e + 1, Len(c.URL))
HasScheme(s) == Contains(s, HttpPattern) \/ Contains(s, HttpsPattern)

\* C1: for a URL that contains "http://" or "https://", InjectAuthString
\* returns URL[:e] + Username + ":" + Password + "@" + URL[e:], e being the
\* end of the leftmost "http://" when the URL contains "http://" anywhere and
\* the end of the leftmost "https://" otherwise; AuthURL returns the same.
C1_SpliceAfterScheme ==
    HasScheme(config.URL) =>
        \E e \in 0..Len(config.URL) :
            /\ IF Contains(config.URL, HttpPattern)
               THEN LeftmostEnd(config.URL, HttpPattern, e)
               ELSE LeftmostEnd(config.URL, HttpsPattern, e)
            /\ \A m \in called : out[m] = Returned(Spliced(config, e))

\* both methods have returned for a URL whose leftmost "https://" lies to
\* the left of its leftmost "http://", with a user name and a password
C1_Witness ==
    /\ called = {"InjectAuthString", "AuthURL"}
    /\ config.Username # <<>>
    /\ config.Password # <<>>
    /\ \E e \in 0..Len(config.URL), f \in 0..Len(config.URL) :
           /\ LeftmostEnd(config.URL, HttpPattern, e)
           /\ LeftmostEnd(config.URL, HttpsPattern, f)
           /\ f < e
           /\ out["AuthURL"].value = Spliced(config, e)
           /\ out["AuthURL"].value # Spliced(config, f)

\* C2: for a URL that contains neither "http://" nor "https://" (the empty
\* URL too) InjectAuthString and AuthURL return "" whatever the user name and
\* password, without a panic; and they return "" in that case only.
C2_EmptyWithoutScheme ==
    \A m \in called :
        /\ ~out[m].panicked
        /\ ~HasScheme(config.URL) => out[m] = Returned(<<>>)
        /\ out[m].value = <<>> => ~HasScheme(config.URL)

\* both methods have returned "" for a non-empty URL that holds the pieces
\* "http" and "://" but no scheme, with a user name and a password set
C2_Witness ==
    /\ called = {"InjectAuthString", "AuthURL"}
    /\ config.Username # <<>>
    /\ config.Password # <<>>
    /\ Contains(config.URL, Str_http)
    /\ Contains(config.URL, Str_sep)
    /\ ~HasScheme(config.URL)
    /\ out["InjectAuthString"].value = <<>>
    /\ out["AuthURL"].value = <<>>

------------------------------------------------------------------------------
(* Claims about QueryData, checked under SpecQuery *)

RequestRefIDs == {request[i].RefID : i \in 1..Len(request)}

\* C10: QueryData returns a nil error and a Responses map whose key set is
\* exactly the set of RefIDs of the request's queries; every response in it
\* carries the error "Queries are not supported!" and no frames, whatever
\* the query's JSON and time range (query never gets to build a frame).
C10_QueriesNotSupported ==
    queryOut.returned =>
        /\ queryOut.err = NilError
        /\ DOMAIN queryOut.response.Responses = RequestRefIDs
        /\ \A k \in DOMAIN queryOut.response.Responses :
               /\ queryOut.response.Responses[k].Error # NilError
               /\ queryOut.response.Responses[k].Error = ErrNotSupported
               /\ queryOut.response.Responses[k].Frames = <<>>

\* QueryData has returned for a request of two queries with different
\* RefIDs, one whose JSON parses and names a format, one whose JSON does not
C10_Witness ==
    /\ queryOut.returned
    /\ Len(request) = 2
    /\ request[1].RefID # request[2].RefID
    /\ Unmarshal(request[1].JSON) = [err |-> NilError, Format |-> "table"]
    /\ Unmarshal(request[2].JSON).err # NilError
    /\ request[1].TimeRange # request[2].TimeRange
    /\ Cardinality(DOMAIN queryOut.response.Responses) = 2

------------------------------------------------------------------------------
(* Claims about GetDataSource, Init, Ping and CheckHealth, checked under   *)
(* SpecStore                                                                *)

\* C3: every failure during database initialisation is fatal: once Ping,
\* sql.Open, or the preparation or the execution of one of the five CREATE
\* TABLE statements has failed, Init panics; it never gets to its normal end
\* ("Database initialized!"), and GetDataSource never returns a datasource
\* whose schema creation failed.
C3_InitFailureIsFatal ==
    initPc \in {"Init_End", "returned"} => failedStep = NoFailure

\* C4: Init is idempotent: after any Init that returns normally the database
\* holds all five tables, so that running Init again, from an empty, a partly
\* created or a fully created database, yields the same set of tables as
\* running it once.
C4_InitCreatesAllTables ==
    initPc = "returned" => \A t \in TableNames : tables[t].exists

\* C6: Init only adds tables: no step (of Init, or of any other operation of
\* the model) changes the columns or the rows of a table that exists, or
\* drops it; a step changes a table only by creating it, with the columns of
\* its CREATE TABLE statement and no rows.
C6_InitOnlyAddsTables ==
    [][\A t \in TableNames :
          /\ tables[t].exists => tables'[t] = tables[t]
          /\ tables'[t] # tables[t] => tables'[t] = NewTable(t)]_vars

\* Init has returned after adding a table beside a table of an earlier
\* layout that holds a row
C6_Witness ==
    /\ initPc = "returned"
    /\ \E t \in TableNames : tables[t] = LegacyTable(t)
    /\ \E t \in TableNames : tables[t] = NewTable(t)

InitHoldsHandle == initPc \in {"Init_Ping", "Init_End"} \cup TableNames
PingsInProgress == {i \in HealthCalls : healthPc[i] = "Ping"}

\* C7: every call of Ping and of Init opens a handle of its own and has
\* closed it when it ends, by a normal return, an error return or a panic;
\* no two calls hold the same handle; the number of open handles is the
\* number of CheckHealth/Ping calls in progress (plus one while Init holds
\* its own) and zero when no call is running.
C7_OneHandlePerCall ==
    /\ openHandles = ({initDb} \cup {healthDb[i] : i \in HealthCalls}) \ {NilDb}
    /\ \A i \in HealthCalls : healthDb[i] # NilDb <=> i \in PingsInProgress
    /\ initDb # NilDb <=> InitHoldsHandle
    /\ \A i, j \in HealthCalls :
           i # j /\ healthDb[i] # NilDb => healthDb[i] # healthDb[j]
    /\ \A i \in HealthCalls : healthDb[i] # NilDb => healthDb[i] # initDb
    /\ Cardinality(openHandles) =
           Cardinality(PingsInProgress) + (IF InitHoldsHandle THEN 1 ELSE 0)
    /\ (PingsInProgress = {} /\ initPc \in {"idle", "returned", "panicked"})
           => openHandles = {}

\* two CheckHealth calls are inside Ping at the same time, each with a handle
C7_Witness ==
    /\ \E i, j \in HealthCalls :
           /\ i # j
           /\ healthPc[i] = "Ping"
           /\ healthPc[j] = "Ping"
           /\ healthDb[i] # healthDb[j]
           /\ {healthDb[i], healthDb[j]} \subseteq openHandles

\* C9: CheckHealth reports HealthStatusOk exactly when Ping returned no
\* error, and HealthStatusError with a message that holds the ping error
\* otherwise; its Go error is nil in both cases; and no step of a CheckHealth
\* call changes the tables of the database.
C9_CheckHealthReportsPing ==
    /\ [](\A i \in HealthCalls :
            health[i].returned =>
                /\ health[i].Status = "OK" <=> health[i].ping = NilError
                /\ health[i].Status \in {"OK", "ERROR"}
                /\ health[i].ping # NilError =>
                       \E k \in 1..Len(health[i].Message) :
                           health[i].Message[k] = health[i].ping
                /\ health[i].err = NilError)
    /\ [][(\E i \in HealthCalls : healthPc'[i] # healthPc[i])
              => tables' = tables]_vars

\* one CheckHealth call has reported an error and another one success, on a
\* database that holds tables
C9_Witness ==
    /\ \E i, j \in HealthCalls :
           /\ health[i].returned /\ health[i].Status = "ERROR"
           /\ health[i].ping \in DbPingErrors
           /\ health[j].returned /\ health[j].Status = "OK"
    /\ \E t \in TableNames : tables[t].exists

------------------------------------------------------------------------------
(* Claims about testEmail, checked under SpecServer *)

LookupNames == {Lookups[k] : k \in 1..Len(Lookups)}
IsLookup(e) == e.op \in LookupNames
Positions(log, op) == {k \in 1..Len(log) : log[k].op = op}

\* C5: a failure of any of the four lookups makes the handler write an HTTP
\* error response and then panic, in that order, with status 500 for
\* NewEmailConfig, NewAuthConfig and GetSettings and status 400 for
\* GetSchedule; the lookups run in that fixed order, and none is made after
\* the one that failed.
C5_ErrorResponseThenPanic ==
    \A r \in Requests :
        LET c   == testEmailCalls[r]
            log == c.log
        IN  \A k \in 1..Len(log) :
                IsLookup(log[k]) =>
                    /\ k <= Len(Lookups)
                    /\ log[k].op = Lookups[k]
                    /\ \A j \in 1..(k - 1) :
                           IsLookup(log[j]) /\ log[j].err = NilError
                    /\ log[k].err # NilError =>
                           /\ Len(log) = k + 2
                           /\ log[k + 1] =
                                  HttpError(IF log[k].op = "GetSchedule"
                                            THEN 400 ELSE 500, log[k].err)
                           /\ log[k + 2] = PanicEvent(log[k].err)
                           /\ c.pc = "panicked"

\* one request has ended in a panic after a failed GetSchedule and a 400,
\* another after a failed NewAuthConfig and a 500
C5_Witness ==
    \E r, q \in Requests :
        /\ testEmailCalls[r].pc = "panicked"
        /\ Len(testEmailCalls[r].log) = 6
        /\ testEmailCalls[r].log[4].op = "GetSchedule"
        /\ testEmailCalls[r].log[4].err # NilError
        /\ testEmailCalls[r].log[5].op = "http.Error"
        /\ testEmailCalls[r].log[5].args[2] = 400
        /\ testEmailCalls[q].pc = "panicked"
        /\ Len(testEmailCalls[q].log) = 4
        /\ testEmailCalls[q].log[2].op = "NewAuthConfig"
        /\ testEmailCalls[q].log[2].err # NilError
        /\ testEmailCalls[q].log[3].op = "http.Error"
        /\ testEmailCalls[q].log[3].args[2] = 500

\* C8: in every run of testEmail CreateReport is invoked at most once, only
\* after all four lookups have succeeded, and with the schedule that
\* GetSchedule returned for the request's schedule-id; status 200 is written
\* only after CreateReport has returned; a request that wrote an error status
\* never invokes CreateReport and never writes 200.
C8_CreateReportOnceAfterLookups ==
    \A r \in Requests :
        LET c   == testEmailCalls[r]
            log == c.log
        IN  /\ Cardinality(Positions(log, "CreateReport")) <= 1
            /\ \A k \in Positions(log, "CreateReport") :
                   /\ k = Len(Lookups) + 1
                   /\ \A j \in 1..Len(Lookups) :
                          log[j].op = Lookups[j] /\ log[j].err = NilError
                   /\ log[4].args = <<c.id>>
                   /\ log[k].args[1] = log[4].ret[1]
            /\ \A k \in Positions(log, "WriteHeader") :
                   /\ log[k].args = <<200>>
                   /\ k > 2
                   /\ log[k - 1].op = "CreateReport.return"
                   /\ log[k - 2].op = "CreateReport"
            /\ Positions(log, "http.Error") # {} =>
                   /\ Positions(log, "CreateReport") = {}
                   /\ Positions(log, "WriteHeader") = {}

\* a request for schedule-id "s2" has invoked CreateReport and written 200,
\* while another one has written an error status
C8_Witness ==
    \E r, q \in Requests :
        /\ testEmailCalls[r].pc = "done"
        /\ testEmailCalls[r].id = "s2"
        /\ Positions(testEmailCalls[r].log, "CreateReport") = {5}
        /\ Positions(testEmailCalls[r].log, "WriteHeader") = {7}
        /\ Positions(testEmailCalls[q].log, "http.Error") # {}

====
